---- MODULE Spec2Model ----
(***************************************************************************)
(* Model of the image optimizer web application.                           *)
(*                                                                         *)
(*   app.py    in-process mode: the POST /optimize handler, the worker     *)
(*             thread (process_images / optimize_image), the SSE stream    *)
(*             consumer (optimize_stream.generate) and the download        *)
(*             handler (download_file / remove_file).                      *)
(*   tasks.py  distributed mode: process_images_task / optimize_image.     *)
(*                                                                         *)
(* The shared state of app.py is modelled as it is in the code: ONE global *)
(* progress_queue, ONE input tree (/tmp/input), ONE output tree            *)
(* (/tmp/output), the globals current_output_dir and optimization_count,   *)
(* and the /tmp/downloads directory.                                       *)
(***************************************************************************)
EXTENDS Integers, Sequences, FiniteSets, TLC

(***************************************************************************)
(* Bounds of the model.                                                    *)
(***************************************************************************)
\* POST /optimize requests issued (accepted or rejected)
MaxJobs == 2
\* GET /optimize-stream connections opened
MaxStreams == 2
\* keepalive records one stream connection may emit
MaxKeepalive == 1
\* GET /download/<filename> requests issued
MaxDownloads == 2

Jobs == 1..MaxJobs
Streams == 1..MaxStreams
Downloads == 1..MaxDownloads

(***************************************************************************)
(* Files.  A file name is (dir, base, ext); ext is the text after the last *)
(* dot as os.path.splitext gives it.  The content of an input file is one  *)
(* of the kinds below; what the codec does with it depends on the kind.    *)
(*   jpeg      decodable JPEG                                              *)
(*   png_rgb   decodable PNG without transparency                          *)
(*   png_rgba  decodable PNG with an alpha channel                         *)
(*   garbage   bytes the codec cannot decode (the codec's own exception)   *)
(*   oserror   a file whose attempt fails outside the codec (an OSError    *)
(*             raised while reading or saving it)                          *)
(*   text, zip not an image; only met under a non-image extension          *)
(***************************************************************************)
Kinds == {"jpeg", "png_rgb", "png_rgba", "garbage", "oserror", "text", "zip"}

\* img.format of a decodable image
FormatOf(kind) ==
    CASE kind = "jpeg" -> "JPEG"
      [] kind \in {"png_rgb", "png_rgba"} -> "PNG"
      [] OTHER -> "NONE"

\* img.alpha_channel (Wand) / the mode test of PIL
HasAlpha(kind) == kind = "png_rgba"

\* os.path.getsize of an input file
OriginalSize(kind) == IF kind = "text" THEN 10 ELSE 1000

\* os.path.getsize of the file the codec wrote, by output format
OptimizedSize(fmt) == IF fmt = "JPEG" THEN 400 ELSE 800

\* str.lower() on an extension
Lower(ext) ==
    CASE ext = "PNG" -> "png"
      [] ext = "JPG" -> "jpg"
      [] ext = "ZIP" -> "zip"
      [] OTHER -> ext

PathOf(f) == [dir |-> f.dir, base |-> f.base, ext |-> f.ext]

\* writing a file replaces whatever was at the same path
WriteFile(tree, f) == {g \in tree : PathOf(g) # PathOf(f)} \cup {f}

RECURSIVE WriteAll(_, _)
WriteAll(tree, files) ==
    IF files = {} THEN tree
    ELSE LET f == CHOOSE x \in files : TRUE
         IN  WriteAll(WriteFile(tree, f), files \ {f})

\* os.walk: the files of a tree in the order the file system lists them
\* (one fixed order per tree)
RECURSIVE Walk(_)
Walk(tree) ==
    IF tree = {} THEN << >>
    ELSE LET f == CHOOSE x \in tree : TRUE
         IN  <<f>> \o Walk(tree \ {f})

(***************************************************************************)
(* Requests to POST /optimize.                                             *)
(*   has_file     'zip_file' is a part of the request                      *)
(*   filename     the uploaded file's name, a sequence of characters       *)
(*   wellformed   the payload is a readable ZIP archive                    *)
(*   entries      the archive's members: path components as stored in the  *)
(*                archive (may hold ".."), name, extension, content kind   *)
(*   jpeg_quality, convert_png   form fields: present or not, and the text *)
(***************************************************************************)
Entry(path, base, ext, kind) ==
    [path |-> path, base |-> base, ext |-> ext, kind |-> kind]

Absent == [present |-> FALSE, text |-> << >>]
Field(text) == [present |-> TRUE, text |-> text]

Upload(filename, wellformed, entries, quality, convert) ==
    [has_file |-> TRUE, filename |-> filename, wellformed |-> wellformed,
     entries |-> entries, jpeg_quality |-> quality, convert_png |-> convert]

ZipName == <<"i", ".", "z", "i", "p">>

\* one opaque PNG, conversion requested
ReqOpaque ==
    Upload(ZipName, TRUE, {Entry(<< >>, "a", "png", "png_rgb")},
           Field(<<"7", "0">>), Field(<<"o", "n">>))
\* the same PNG stored under a path that leaves the extraction root,
\* no conversion requested
ReqEscape ==
    Upload(ZipName, TRUE, {Entry(<<"..">>, "a", "png", "png_rgb")},
           Absent, Absent)
\* a transparent PNG and an undecodable file, conversion requested
ReqMixed ==
    Upload(<<"I", ".", "Z", "I", "P">>, TRUE,
           {Entry(<< >>, "a", "png", "png_rgba"),
            Entry(<<"d">>, "b", "jpg", "garbage")},
           Field(<<"x">>), Field(<<"1">>))
\* an archive without any image
ReqNoImages ==
    Upload(ZipName, TRUE, {Entry(<< >>, "n", "txt", "text")},
           Field(<<"0">>), Field(<< >>))
\* a file whose attempt fails outside the codec, and a good JPEG
ReqOsError ==
    Upload(ZipName, TRUE,
           {Entry(<< >>, "b", "jpg", "oserror"),
            Entry(<< >>, "c", "JPG", "jpeg")},
           Field(<<"1", "0", "1">>), Absent)
\* requests the handler rejects
ReqNoPart ==
    [has_file |-> FALSE, filename |-> << >>, wellformed |-> FALSE,
     entries |-> {}, jpeg_quality |-> Absent, convert_png |-> Absent]
ReqNoName == Upload(<< >>, TRUE, {}, Absent, Absent)
ReqNotZip == Upload(<<"i", ".", "t", "x", "t">>, TRUE, {}, Absent, Absent)
ReqBadZip == Upload(ZipName, FALSE, {}, Absent, Absent)

Requests ==
    {ReqOpaque, ReqEscape, ReqMixed, ReqNoImages, ReqOsError,
     ReqNoPart, ReqNoName, ReqNotZip, ReqBadZip}

\* str.lower() on one character
LowerChar(c) ==
    CASE c = "I" -> "i"
      [] c = "Z" -> "z"
      [] c = "P" -> "p"
      [] OTHER -> c

LowerSeq(s) == [i \in 1..Len(s) |-> LowerChar(s[i])]

\* str.endswith
EndsWith(s, suffix) ==
    /\ Len(s) >= Len(suffix)
    /\ SubSeq(s, Len(s) - Len(suffix) + 1, Len(s)) = suffix

Digits == {"0", "1", "2", "3", "4", "5", "6", "7", "8", "9"}
DigitVal(c) ==
    CASE c = "0" -> 0 [] c = "1" -> 1 [] c = "2" -> 2 [] c = "3" -> 3
      [] c = "4" -> 4 [] c = "5" -> 5 [] c = "6" -> 6 [] c = "7" -> 7
      [] c = "8" -> 8 [] c = "9" -> 9

RECURSIVE DecimalValue(_)
DecimalValue(s) ==
    IF s = << >> THEN 0
    ELSE 10 * DecimalValue(SubSeq(s, 1, Len(s) - 1)) + DigitVal(s[Len(s)])

\* int(text) succeeds on a non-empty run of decimal digits
IsIntText(s) == s # << >> /\ \A i \in 1..Len(s) : s[i] \in Digits

\* jpeg_quality = int(request.form.get('jpeg_quality', 85)), 85 on ValueError
DefaultQuality == 85
JpegQualityOf(field) ==
    IF ~field.present THEN DefaultQuality
    ELSE IF IsIntText(field.text) THEN DecimalValue(field.text)
    ELSE DefaultQuality

\* convert_png = bool(request.form.get('convert_png'))
ConvertPngOf(field) == field.present /\ field.text # << >>

\* the checks of the handler before any directory is touched
RejectedEarly(req) ==
    \/ ~req.has_file
    \/ req.filename = << >>
    \/ ~EndsWith(LowerSeq(req.filename), <<".", "z", "i", "p">>)

\* ZipFile.extractall: every member is written below the target directory;
\* empty, "." and ".." components of the stored path are dropped
SafeDir(path) == SelectSeq(path, LAMBDA c : c \notin {"", ".", ".."})

Extracted(entries) ==
    {[dir |-> SafeDir(e.path), base |-> e.base, ext |-> e.ext, kind |-> e.kind] :
        e \in entries}

\* the uploaded archive as saved at /tmp/input/upload.zip
UploadZip == [dir |-> << >>, base |-> "upload", ext |-> "zip", kind |-> "zip"]

(***************************************************************************)
(* State.                                                                  *)
(***************************************************************************)
VARIABLES
    inputTree,           \* the files below /tmp/input
    outputTree,          \* the files below /tmp/output
    current_output_dir,  \* app.py global
    optimization_count,  \* app.py global
    progress_queue,      \* app.py global queue.Queue
    requests,            \* the POST /optimize requests handled so far, with
                         \* the response each got
    workers,             \* per request: the process_images thread it started
    streams,             \* per connection: the generate() generator
    downloadsDir,        \* the archives below /tmp/downloads
    uuids,               \* number of uuid4 names drawn so far
    dl,                  \* per GET /download request: its response
    task,                \* tasks.py: the process_images_task call of the
                         \* distributed mode
    cli                  \* optimize_images.py: the run of the command line
                         \* tool

vars == <<inputTree, outputTree, current_output_dir, optimization_count,
          progress_queue, requests, workers, streams, downloadsDir, uuids, dl,
          task, cli>>

NoFile == [dir |-> << >>, base |-> "", ext |-> ""]

\* a thread that was never started
NoWorker ==
    [pc |-> "none", image_files |-> << >>, total_files |-> 0, idx |-> 0,
     jpeg_quality |-> 0, convert_png |-> FALSE, nput |-> 0]

\* the records put on progress_queue.  job and seq are not in the code's
\* dictionaries: they name the thread that put the record and the position
\* of the record among that thread's puts.
Event(type, job, seq) ==
    [type |-> type, job |-> job, seq |-> seq, progress |-> 0,
     file_name |-> NoFile, original_size |-> 0, optimized_size |-> 0,
     saving_percentage |-> 0, status |-> "", zip_file |-> 0]

NoEvent == Event("none", 0, 0)

NoStream ==
    [pc |-> "idle", data |-> NoEvent, count |-> 0, zip_filename |-> 0,
     sent |-> << >>, keepalives |-> 0]

NoDownload == [pc |-> "idle", filename |-> 0, body |-> {}, result |-> ""]

\* the command line tool was not run
NoCli ==
    [pc |-> "off", input_dir |-> {}, output_dir |-> {}, convert_png |-> FALSE,
     image_files |-> << >>, done |-> 0, success_count |-> 0,
     outcomes |-> << >>, output_zip |-> {}]

\* no process_images_task call was made
NoTask ==
    [pc |-> "off", input_dir |-> {}, output_dir |-> {}, convert_png |-> FALSE,
     total_files |-> 0, files |-> << >>, processed |-> 0, results |-> << >>,
     redis |-> << >>, zip |-> {}]

Init ==
    /\ inputTree = {}
    /\ outputTree = {}
    /\ current_output_dir = "None"
    /\ optimization_count = 0
    /\ progress_queue = << >>
    /\ requests = << >>
    /\ workers = [j \in Jobs |-> NoWorker]
    /\ streams = [c \in Streams |-> NoStream]
    /\ downloadsDir = {}
    /\ uuids = 0
    /\ dl = [d \in Downloads |-> NoDownload]
    /\ task = NoTask
    /\ cli = NoCli

(***************************************************************************)
(* POST /optimize                                                          *)
(***************************************************************************)
\* threading.Thread(target=process_images, args=(...)).start()
StartedWorker(req) ==
    [NoWorker EXCEPT !.pc = "walk",
                     !.jpeg_quality = JpegQualityOf(req.jpeg_quality),
                     !.convert_png = ConvertPngOf(req.convert_png)]

\* the response of the handler to a request
Response(req) ==
    IF RejectedEarly(req) THEN "400"
    ELSE IF ~req.wellformed THEN "400"
    ELSE "success"

Optimize(req) ==
    /\ Len(requests) < MaxJobs
    /\ requests' = Append(requests, [req |-> req, response |-> Response(req)])
    /\ IF RejectedEarly(req)
       THEN UNCHANGED <<inputTree, current_output_dir, workers>>
       ELSE /\ current_output_dir' = "/tmp/output"
            /\ IF req.wellformed
               THEN /\ inputTree' =
                         WriteAll(WriteFile(inputTree, UploadZip),
                                  Extracted(req.entries))
                    /\ workers' =
                         [workers EXCEPT ![Len(requests) + 1] = StartedWorker(req)]
               ELSE /\ inputTree' = WriteFile(inputTree, UploadZip)
                    /\ UNCHANGED workers
    /\ UNCHANGED <<outputTree, optimization_count, progress_queue, streams,
                   downloadsDir, uuids, dl,
                   task, cli>>

(***************************************************************************)
(* The worker thread: process_images and optimize_image of app.py          *)
(***************************************************************************)
image_extensions == {"jpg", "jpeg", "png", "gif", "bmp", "tiff", "webp"}

IsImageFile(f) == Lower(f.ext) \in image_extensions

\* the (root, file) pairs process_images collects
ImageFiles(tree) == SelectSeq(Walk({PathOf(f) : f \in tree}), IsImageFile)

\* the content found at a path when it is opened
KindAt(tree, path) == (CHOOSE f \in tree : PathOf(f) = path).kind

\* progress = (current_file / total_files) * 100, rounded down
Percent(current_file, total_files) == (current_file * 100) \div total_files

\* ((original_size - optimized_size) / original_size) * 100 if original_size > 0 else 0
SavingPercentage(original_size, optimized_size) ==
    IF original_size > 0
    THEN ((original_size - optimized_size) * 100) \div original_size
    ELSE 0

\* lines 123-133: collect the image files, count them
ProcessImagesWalk(j) ==
    /\ workers[j].pc = "walk"
    /\ LET files == ImageFiles(inputTree)
       IN  workers' = [workers EXCEPT
                ![j].image_files = files,
                ![j].total_files = Len(files),
                ![j].idx = 1,
                ![j].pc = IF Len(files) = 0 THEN "finish" ELSE "progress"]
    /\ UNCHANGED <<inputTree, outputTree, current_output_dir, optimization_count,
                   progress_queue, requests, streams, downloadsDir, uuids, dl,
                   task, cli>>

\* lines 61-63: the progress record, put before the file is attempted
OptimizeImageProgress(j) ==
    LET w == workers[j] IN
    /\ w.pc = "progress"
    /\ progress_queue' = Append(progress_queue,
          [Event("progress", j, w.nput + 1) EXCEPT
              !.progress = Percent(w.idx, w.total_files)])
    /\ workers' = [workers EXCEPT ![j].nput = @ + 1, ![j].pc = "attempt"]
    /\ UNCHANGED <<inputTree, outputTree, current_output_dir, optimization_count,
                   requests, streams, downloadsDir, uuids, dl,
                   task, cli>>

\* the status optimize_image reports for a decodable image
StatusOf(kind, convert_png) ==
    IF convert_png /\ FormatOf(kind) = "PNG" /\ ~HasAlpha(kind)
    THEN "converted"
    ELSE "optimized"

\* the file optimize_image writes for a decodable image
OutputOf(path, kind, convert_png) ==
    IF convert_png /\ FormatOf(kind) = "PNG" /\ ~HasAlpha(kind)
    THEN [dir |-> path.dir, base |-> path.base, ext |-> "jpg", fmt |-> "JPEG"]
    ELSE [dir |-> path.dir, base |-> path.base, ext |-> path.ext,
          fmt |-> FormatOf(kind)]

\* img.save(filename=output_path): the saved file, and the thread that saved it
SavedFile(j, out) ==
    [dir |-> out.dir, base |-> out.base, ext |-> out.ext, fmt |-> out.fmt,
     by |-> j]

\* lines 93-100: the record of a file the codec failed on
ErrorRecord(j, seq, path, kind) ==
    [Event("file_complete", j, seq) EXCEPT
        !.file_name = path,
        !.original_size = OriginalSize(kind),
        !.optimized_size = 0,
        !.saving_percentage = 0,
        !.status = "error"]

\* lines 103-115: the record of a file that was saved
CompleteRecord(j, seq, path, kind, convert_png) ==
    LET out == OutputOf(path, kind, convert_png) IN
    [Event("file_complete", j, seq) EXCEPT
        !.file_name = path,
        !.original_size = OriginalSize(kind),
        !.optimized_size = OptimizedSize(out.fmt),
        !.saving_percentage =
            SavingPercentage(OriginalSize(kind), OptimizedSize(out.fmt)),
        !.status = StatusOf(kind, convert_png)]

\* a loop that stops one file short
AfterFile_StopsEarly(w) ==
    IF w.idx >= w.total_files - 1 THEN "finish" ELSE "progress"

\* where the loop of process_images goes after file idx
AfterFile(w) == IF w.idx = w.total_files THEN "finish" ELSE "progress"

\* lines 65-115: one file is read, transformed and saved.  The codec's own
\* failure (WandException) is caught and reported; any other exception
\* leaves optimize_image and process_images and ends the thread.
OptimizeImageAttempt(j) ==
    LET w == workers[j]
        path == w.image_files[w.idx]
        kind == KindAt(inputTree, path)
    IN
    /\ w.pc = "attempt"
    /\ CASE kind = "oserror" ->
              /\ workers' = [workers EXCEPT ![j].pc = "died"]
              /\ UNCHANGED <<outputTree, progress_queue>>
         [] kind \in {"garbage", "text", "zip"} ->
              /\ progress_queue' = Append(progress_queue,
                    ErrorRecord(j, w.nput + 1, path, kind))
              /\ workers' = [workers EXCEPT ![j].nput = @ + 1,
                                            ![j].idx = @ + 1,
                                            ![j].pc = AfterFile(w)]
              /\ UNCHANGED outputTree
         [] OTHER ->
              /\ outputTree' = WriteFile(outputTree,
                    SavedFile(j, OutputOf(path, kind, w.convert_png)))
              /\ progress_queue' = Append(progress_queue,
                    CompleteRecord(j, w.nput + 1, path, kind, w.convert_png))
              /\ workers' = [workers EXCEPT ![j].nput = @ + 1,
                                            ![j].idx = @ + 1,
                                            ![j].pc = AfterFile(w)]
    /\ UNCHANGED <<inputTree, current_output_dir, optimization_count,
                   requests, streams, downloadsDir, uuids, dl,
                   task, cli>>

\* line 145: the terminal record
ProcessImagesFinish(j) ==
    LET w == workers[j] IN
    /\ w.pc = "finish"
    /\ progress_queue' = Append(progress_queue,
          Event("processing_complete", j, w.nput + 1))
    /\ workers' = [workers EXCEPT ![j].nput = @ + 1, ![j].pc = "done"]
    /\ UNCHANGED <<inputTree, outputTree, current_output_dir, optimization_count,
                   requests, streams, downloadsDir, uuids, dl,
                   task, cli>>

(***************************************************************************)
(* GET /optimize-stream: the generator generate()                          *)
(***************************************************************************)
StreamConnect(c) ==
    /\ streams[c].pc = "idle"
    /\ streams' = [streams EXCEPT ![c].pc = "wait"]
    /\ UNCHANGED <<inputTree, outputTree, current_output_dir, optimization_count,
                   progress_queue, requests, workers, downloadsDir, uuids, dl,
                   task, cli>>

\* line 214: progress_queue.get(timeout=10) returns a record
StreamGet(c) ==
    /\ streams[c].pc = "wait"
    /\ progress_queue # << >>
    /\ streams' = [streams EXCEPT
          ![c].data = Head(progress_queue),
          ![c].pc = IF Head(progress_queue).type = "processing_complete"
                    THEN "count" ELSE "yield"]
    /\ progress_queue' = Tail(progress_queue)
    /\ UNCHANGED <<inputTree, outputTree, current_output_dir, optimization_count,
                   requests, workers, downloadsDir, uuids, dl,
                   task, cli>>

\* lines 235-236: the wait expired on an empty queue
StreamKeepalive(c) ==
    /\ streams[c].pc = "wait"
    /\ progress_queue = << >>
    /\ streams[c].keepalives < MaxKeepalive
    /\ streams' = [streams EXCEPT
          ![c].sent = Append(@, Event("keepalive", 0, 0)),
          ![c].keepalives = @ + 1]
    /\ UNCHANGED <<inputTree, outputTree, current_output_dir, optimization_count,
                   progress_queue, requests, workers, downloadsDir, uuids, dl,
                   task, cli>>

\* line 234: the record is forwarded as it is
StreamYield(c) ==
    /\ streams[c].pc = "yield"
    /\ streams' = [streams EXCEPT
          ![c].sent = Append(@, streams[c].data),
          ![c].data = NoEvent,
          ![c].pc = "wait"]
    /\ UNCHANGED <<inputTree, outputTree, current_output_dir, optimization_count,
                   progress_queue, requests, workers, downloadsDir, uuids, dl,
                   task, cli>>

\* line 217, optimization_count += 1: the global is read ...
StreamCountLoad(c) ==
    /\ streams[c].pc = "count"
    /\ streams' = [streams EXCEPT ![c].count = optimization_count,
                                  ![c].pc = "store"]
    /\ UNCHANGED <<inputTree, outputTree, current_output_dir, optimization_count,
                   progress_queue, requests, workers, downloadsDir, uuids, dl,
                   task, cli>>

\* ... and the incremented value is written back
StreamCountStore(c) ==
    /\ streams[c].pc = "store"
    /\ optimization_count' = streams[c].count + 1
    /\ streams' = [streams EXCEPT ![c].pc = "zip"]
    /\ UNCHANGED <<inputTree, outputTree, current_output_dir, progress_queue,
                   requests, workers, downloadsDir, uuids, dl,
                   task, cli>>

\* lines 226-230: the members of the archive, whatever is below
\* current_output_dir when the walk runs
ZipMembers(tree) == tree

\* lines 219-230: the archive is written under a fresh uuid4 name; writing
\* it can fail (OSError), which ends the generator
StreamZip(c) ==
    /\ streams[c].pc = "zip"
    /\ \E written \in BOOLEAN :
          IF written
          THEN /\ uuids' = uuids + 1
               /\ downloadsDir' = downloadsDir \cup
                     {[name |-> uuids + 1, members |-> ZipMembers(outputTree),
                       job |-> streams[c].data.job]}
               /\ streams' = [streams EXCEPT ![c].zip_filename = uuids + 1,
                                             ![c].pc = "complete"]
          ELSE /\ streams' = [streams EXCEPT ![c].pc = "raised"]
               /\ UNCHANGED <<uuids, downloadsDir>>
    /\ UNCHANGED <<inputTree, outputTree, current_output_dir, optimization_count,
                   progress_queue, requests, workers, dl,
                   task, cli>>

\* a generator that goes on waiting after the terminal record
StreamComplete_StaysOpen(c) ==
    /\ streams[c].pc = "complete"
    /\ streams' = [streams EXCEPT
          ![c].sent = Append(@,
              [Event("complete", streams[c].data.job, streams[c].data.seq) EXCEPT
                  !.zip_file = streams[c].zip_filename,
                  !.progress = 100]),
          ![c].pc = "wait"]
    /\ UNCHANGED <<inputTree, outputTree, current_output_dir, optimization_count,
                   progress_queue, requests, workers, downloadsDir, uuids, dl,
                   task, cli>>

\* lines 232-233: the terminal record, then the generator ends
StreamComplete(c) ==
    /\ streams[c].pc = "complete"
    /\ streams' = [streams EXCEPT
          ![c].sent = Append(@,
              [Event("complete", streams[c].data.job, streams[c].data.seq) EXCEPT
                  !.zip_file = streams[c].zip_filename,
                  !.progress = 100]),
          ![c].pc = "closed"]
    /\ UNCHANGED <<inputTree, outputTree, current_output_dir, optimization_count,
                   progress_queue, requests, workers, downloadsDir, uuids, dl,
                   task, cli>>

(***************************************************************************)
(* GET /download/<filename>                                                *)
(***************************************************************************)
Stored(name) == {a \in downloadsDir : a.name = name}

\* line 251: send_from_directory opens the file, or raises NotFound
DownloadFile(d, filename) ==
    /\ dl[d].pc = "idle"
    /\ IF Stored(filename) # {}
       THEN dl' = [dl EXCEPT ![d] =
                [pc |-> "sending", filename |-> filename,
                 body |-> Stored(filename), result |-> ""]]
       ELSE dl' = [dl EXCEPT ![d] =
                [pc |-> "closed", filename |-> filename,
                 body |-> {}, result |-> "not_found"]]
    /\ UNCHANGED <<inputTree, outputTree, current_output_dir, optimization_count,
                   progress_queue, requests, workers, streams, downloadsDir,
                   uuids,
                   task, cli>>

\* lines 254-260: the response is closed, after the body was sent in full or
\* after the transfer broke; remove_file then deletes the archive (an
\* archive already gone is logged and ignored)
RemoveFile(d, flushed) ==
    /\ dl[d].pc = "sending"
    /\ dl' = [dl EXCEPT ![d].pc = "closed",
                        ![d].result = IF flushed THEN "bytes" ELSE "broken"]
    /\ downloadsDir' = downloadsDir \ Stored(dl[d].filename)
    /\ UNCHANGED <<inputTree, outputTree, current_output_dir, optimization_count,
                   progress_queue, requests, workers, streams, uuids,
                   task, cli>>

(***************************************************************************)
(* tasks.py: the distributed mode.  process_images_task is called by an RQ *)
(* worker with the job's own input and output directories; its progress    *)
(* snapshot goes to the Redis hash job:<job_id>, field "progress".          *)
(***************************************************************************)
task_image_extensions == {"jpg", "jpeg", "png"}

IsTaskImageFile(f) == Lower(f.ext) \in task_image_extensions

\* the files the walks of process_images_task select
TaskImageFiles(tree) ==
    SelectSeq(Walk({PathOf(f) : f \in tree}), IsTaskImageFile)

\* tasks.optimize_image, lines 25-32: the status of a decodable image
TaskStatusOf(kind, convert_png) ==
    IF convert_png /\ FormatOf(kind) = "PNG"
    THEN IF HasAlpha(kind) THEN "skipped" ELSE "converted"
    ELSE "optimized"

\* tasks.optimize_image, lines 44-59: the dictionary returned for one file;
\* every exception of the attempt is caught.  A failure outside the codec is
\* raised by os.path.getsize at line 19, before original_size is bound.
TaskResult(path, kind, convert_png) ==
    IF kind \in {"jpeg", "png_rgb", "png_rgba"}
    THEN [file_name |-> path,
          original_size |-> OriginalSize(kind),
          optimized_size |-> OptimizedSize(OutputOf(path, kind, convert_png).fmt),
          saving_percentage |->
              SavingPercentage(OriginalSize(kind),
                  OptimizedSize(OutputOf(path, kind, convert_png).fmt)),
          status |-> TaskStatusOf(kind, convert_png)]
    ELSE [file_name |-> path,
          original_size |-> IF kind = "oserror" THEN 0 ELSE OriginalSize(kind),
          optimized_size |-> 0,
          saving_percentage |-> 0,
          status |-> "error"]

\* the job's input trees the task is run on
TaskInputs == {Extracted(req.entries) : req \in {ReqOpaque, ReqMixed, ReqNoImages, ReqOsError}}

\* the RQ worker calls process_images_task(input_dir, output_dir, job_id, ...)
TaskCall(input_dir, convert_png) ==
    /\ task.pc = "off"
    /\ task' = [NoTask EXCEPT !.pc = "count", !.input_dir = input_dir,
                              !.convert_png = convert_png]
    /\ UNCHANGED <<inputTree, outputTree, current_output_dir, optimization_count,
                   progress_queue, requests, workers, streams, downloadsDir,
                   uuids, dl, cli>>

\* lines 63-67: the first walk counts the candidate files
TaskCount ==
    /\ task.pc = "count"
    /\ task' = [task EXCEPT
          !.total_files = Len(TaskImageFiles(task.input_dir)),
          !.processed = 0,
          !.results = << >>,
          !.files = TaskImageFiles(task.input_dir),
          !.pc = IF TaskImageFiles(task.input_dir) = << >> THEN "zip" ELSE "file"]
    /\ UNCHANGED <<inputTree, outputTree, current_output_dir, optimization_count,
                   progress_queue, requests, workers, streams, downloadsDir,
                   uuids, dl, cli>>

\* a snapshot that reports the files still to do
Snapshot_CountsDown(processed, total_files) ==
    [type |-> "progress",
     progress |-> Percent(total_files - processed, total_files),
     current |-> total_files - processed, total |-> total_files]

\* lines 82-89: the snapshot written after file number processed
Snapshot(processed, total_files) ==
    [type |-> "progress", progress |-> Percent(processed, total_files),
     current |-> processed, total |-> total_files]

\* the loop of lines 69-89 is left after the last file of the second walk
TaskAfterFile(t) == IF t.processed + 1 = Len(t.files) THEN "zip" ELSE "file"

\* lines 72-89: one file of the second walk is optimized, its result is
\* appended and the snapshot is written (redis keeps the successive values
\* of the hash field)
TaskFile ==
    LET path == task.files[task.processed + 1]
        kind == KindAt(task.input_dir, path)
        out == OutputOf(path, kind, task.convert_png)
    IN
    /\ task.pc = "file"
    /\ task' = [task EXCEPT
          !.output_dir =
              IF kind \in {"jpeg", "png_rgb", "png_rgba"}
              THEN WriteFile(@, SavedFile(0, out)) ELSE @,
          !.results = Append(@, TaskResult(path, kind, task.convert_png)),
          !.processed = @ + 1,
          !.redis = Append(@, Snapshot(task.processed + 1, task.total_files)),
          !.pc = TaskAfterFile(task)]
    /\ UNCHANGED <<inputTree, outputTree, current_output_dir, optimization_count,
                   progress_queue, requests, workers, streams, downloadsDir,
                   uuids, dl, cli>>

\* lines 91-104: the output directory is zipped and the task returns
TaskZip ==
    /\ task.pc = "zip"
    /\ task' = [task EXCEPT !.zip = ZipMembers(task.output_dir),
                            !.pc = "returned"]
    /\ UNCHANGED <<inputTree, outputTree, current_output_dir, optimization_count,
                   progress_queue, requests, workers, streams, downloadsDir,
                   uuids, dl, cli>>

(***************************************************************************)
(* optimize_images.py: the command line tool.  main() extracts the input   *)
(* archive into a temporary directory of its own, optimizes every image    *)
(* file into a second one and zips that.                                   *)
(***************************************************************************)
cli_image_extensions == {"jpg", "jpeg", "png"}

IsCliImageFile(f) == Lower(f.ext) \in cli_image_extensions

\* lines 58-64: the (root, file) pairs main collects
CliImageFiles(tree) ==
    SelectSeq(Walk({PathOf(f) : f \in tree}), IsCliImageFile)

\* Image.open(input_path) and the load of the pixels succeed
Decodable(kind) == kind \in {"jpeg", "png_rgb", "png_rgba"}

\* an optimize_image that lets the failure of Image.open reach its caller,
\* after the output file was created
CliOptimizeImage_NoCatch(output_dir, path, kind, convert_png) ==
    IF Decodable(kind)
    THEN [output_dir |->
              WriteFile(output_dir, SavedFile(0, OutputOf(path, kind, convert_png))),
          outcome |-> "True"]
    ELSE [output_dir |->
              WriteFile(output_dir,
                  [dir |-> path.dir, base |-> path.base, ext |-> path.ext,
                   fmt |-> "NONE", by |-> 0]),
          outcome |-> "raised"]

\* optimize_image, lines 14-37: the output directory after the call, and how
\* the call ended.  Image.open raises on a file it cannot identify (and any
\* OSError of the read is raised there too), before anything is saved; every
\* Exception is caught and answered with False.
CliOptimizeImage(output_dir, path, kind, convert_png) ==
    IF Decodable(kind)
    THEN [output_dir |->
              WriteFile(output_dir, SavedFile(0, OutputOf(path, kind, convert_png))),
          outcome |-> "True"]
    ELSE [output_dir |-> output_dir, outcome |-> "False"]

\* the archives the tool is run on
CliInputs ==
    {Extracted(req.entries) : req \in {ReqOpaque, ReqMixed, ReqNoImages, ReqOsError}}

\* lines 39-66: the arguments are parsed, the archive is extracted and the
\* image files are collected
CliMain(input_dir, convert_png) ==
    /\ cli.pc = "off"
    /\ cli' = [NoCli EXCEPT
          !.input_dir = input_dir,
          !.convert_png = convert_png,
          !.image_files = CliImageFiles(input_dir),
          !.pc = IF CliImageFiles(input_dir) = << >> THEN "zip" ELSE "file"]
    /\ UNCHANGED <<inputTree, outputTree, current_output_dir, optimization_count,
                   progress_queue, requests, workers, streams, downloadsDir,
                   uuids, dl, task>>

\* lines 70-79: one file is handed to optimize_image; an exception leaving
\* optimize_image would leave main as well
CliFile ==
    LET path == cli.image_files[cli.done + 1]
        kind == KindAt(cli.input_dir, path)
        call == CliOptimizeImage(cli.output_dir, path, kind, cli.convert_png)
    IN
    /\ cli.pc = "file"
    /\ cli' = [cli EXCEPT
          !.output_dir = call.output_dir,
          !.outcomes = Append(@, call.outcome),
          !.success_count = IF call.outcome = "True" THEN @ + 1 ELSE @,
          !.done = IF call.outcome = "raised" THEN @ ELSE @ + 1,
          !.pc = IF call.outcome = "raised" THEN "raised"
                 ELSE IF cli.done + 1 = Len(cli.image_files) THEN "zip"
                 ELSE "file"]
    /\ UNCHANGED <<inputTree, outputTree, current_output_dir, optimization_count,
                   progress_queue, requests, workers, streams, downloadsDir,
                   uuids, dl, task>>

\* lines 81-92: the output directory is zipped and main returns
CliZip ==
    /\ cli.pc = "zip"
    /\ cli' = [cli EXCEPT !.output_zip = ZipMembers(cli.output_dir),
                          !.pc = "returned"]
    /\ UNCHANGED <<inputTree, outputTree, current_output_dir, optimization_count,
                   progress_queue, requests, workers, streams, downloadsDir,
                   uuids, dl, task>>

(***************************************************************************)
(* Specifications.  A deployment runs in one mode: the in-process          *)
(* application (app.py), or the task of the distributed mode (tasks.py).   *)
(***************************************************************************)
\* the requests of the runs with several submissions in flight
ConcurrentRequests ==
    {ReqOpaque, ReqEscape, ReqNoImages, ReqNoPart, ReqNoName, ReqNotZip,
     ReqBadZip}

\* neither the task nor the command line tool was started
AppOnly == task.pc = "off" /\ cli.pc = "off"

AppUntouched ==
    /\ requests = << >>
    /\ \A c \in Streams : streams[c].pc = "idle"
    /\ \A d \in Downloads : dl[d].pc = "idle"

WorkerNext ==
    \/ \E j \in Jobs : ProcessImagesWalk(j)
    \/ \E j \in Jobs : OptimizeImageProgress(j)
    \/ \E j \in Jobs : OptimizeImageAttempt(j)
    \/ \E j \in Jobs : ProcessImagesFinish(j)

\* connections are numbered in the order they are opened
StreamNext ==
    \/ \E c \in Streams :
          /\ AppOnly
          /\ \A b \in Streams : b < c => streams[b].pc # "idle"
          /\ StreamConnect(c)
    \/ \E c \in Streams : StreamGet(c)
    \/ \E c \in Streams : StreamKeepalive(c)
    \/ \E c \in Streams : StreamYield(c)
    \/ \E c \in Streams : StreamCountLoad(c)
    \/ \E c \in Streams : StreamCountStore(c)
    \/ \E c \in Streams : StreamZip(c)
    \/ \E c \in Streams : StreamComplete(c)

\* requests are numbered in the order they arrive
DownloadNext ==
    \/ \E d \in Downloads, name \in 1..MaxJobs :
          /\ \A b \in Downloads : b < d => dl[b].pc # "idle"
          /\ DownloadFile(d, name)
    \/ \E d \in Downloads, flushed \in BOOLEAN : RemoveFile(d, flushed)

TaskNext ==
    \/ \E input_dir \in TaskInputs, convert_png \in BOOLEAN :
          AppUntouched /\ cli.pc = "off" /\ TaskCall(input_dir, convert_png)
    \/ TaskCount
    \/ TaskFile
    \/ TaskZip

CliNext ==
    \/ \E input_dir \in CliInputs, convert_png \in BOOLEAN :
          AppUntouched /\ task.pc = "off" /\ CliMain(input_dir, convert_png)
    \/ CliFile
    \/ CliZip

\* several submissions in flight, with the stream connections; or the task
Next ==
    \/ \E req \in ConcurrentRequests : AppOnly /\ Optimize(req)
    \/ WorkerNext
    \/ StreamNext
    \/ TaskNext

Spec == Init /\ [][Next]_vars

\* one submission, of any kind, with its stream connections; or the task;
\* or the command line tool
NextJob ==
    \/ \E req \in Requests :
          AppOnly /\ requests = << >> /\ Optimize(req)
    \/ WorkerNext
    \/ StreamNext
    \/ TaskNext
    \/ CliNext

SpecJob == Init /\ [][NextJob]_vars

\* one submission, its stream connections and the retrieval requests
NextDownload ==
    \/ \E req \in Requests : requests = << >> /\ Optimize(req)
    \/ WorkerNext
    \/ StreamNext
    \/ DownloadNext

SpecDownload == Init /\ [][NextDownload]_vars

\* what the server runs by itself: a started thread runs to its end, a
\* generator that was connected is iterated by its request thread, and a
\* response that was opened is closed.  Nothing makes a client connect to
\* the stream or request a download.
Fairness ==
    /\ \A j \in Jobs :
          WF_vars(\/ ProcessImagesWalk(j)
                  \/ OptimizeImageProgress(j)
                  \/ OptimizeImageAttempt(j)
                  \/ ProcessImagesFinish(j))
    /\ \A c \in Streams :
          WF_vars(\/ StreamGet(c)
                  \/ StreamKeepalive(c)
                  \/ StreamYield(c)
                  \/ StreamCountLoad(c)
                  \/ StreamCountStore(c)
                  \/ StreamZip(c)
                  \/ StreamComplete(c))
    /\ \A d \in Downloads : WF_vars(\E flushed \in BOOLEAN : RemoveFile(d, flushed))

\* the runs of SpecDownload in which the server keeps running
SpecLive == Init /\ [][NextDownload]_vars /\ Fairness

(***************************************************************************)
(* Properties.                                                             *)
(***************************************************************************)
Range(s) == {s[i] : i \in 1..Len(s)}

\* the records a stream connection holds and has not forwarded yet
InHand(c) ==
    IF streams[c].pc \in {"yield", "count", "store", "zip", "raised"}
    THEN {streams[c].data} ELSE {}

\* the records forwarded to the client of a connection
Sent(c) == Range(streams[c].sent)

\* every record thread j has put so far, wherever it is now: a record put on
\* the queue stays there, is held by a connection, or was forwarded (the
\* terminal record is forwarded as the 'complete' record)
EmittedBy(j) ==
    {e \in Range(progress_queue)
           \cup UNION {InHand(c) : c \in Streams}
           \cup UNION {Sent(c) : c \in Streams} : e.job = j}

FileCompletes(j) == {e \in EmittedBy(j) : e.type = "file_complete"}
Progresses(j) == {e \in EmittedBy(j) : e.type = "progress"}

\* connections that are handling the processing_complete record of thread j
Assembling(c, j) ==
    /\ streams[c].pc \in {"count", "store", "zip", "complete"}
    /\ streams[c].data.job = j

(***************************************************************************)
(* C1: for one artifact name, only the first retrieval request is served   *)
(* the artifact; every other request for that name gets not-found.         *)
(* Stated as: no two requests for the same name are both served the file.  *)
(***************************************************************************)
C1_OnlyFirstRetrievalServed ==
    \A d \in Downloads : \A e \in Downloads :
        (d # e /\ dl[d].filename = dl[e].filename /\ dl[d].result = "bytes")
            => dl[e].result # "bytes"

(***************************************************************************)
(* C2: a file that fails in its attempt, for whatever reason, is reported  *)
(* by a FileComplete with status error, optimized size 0 and saving 0; the *)
(* worker goes on with the remaining files and the job reaches its         *)
(* ProcessingComplete: the thread never ends on a file.                    *)
(***************************************************************************)
FailsInAttempt(kind) == kind \notin {"jpeg", "png_rgb", "png_rgba"}

C2_FailingFileReportedAndBatchGoesOn ==
    \A j \in Jobs :
        LET w == workers[j] IN
        /\ w.pc # "died"
        /\ \A k \in 1..Len(w.image_files) :
              (k < w.idx /\ FailsInAttempt(KindAt(inputTree, w.image_files[k])))
                  => \E e \in FileCompletes(j) :
                        /\ e.file_name = w.image_files[k]
                        /\ e.status = "error"
                        /\ e.optimized_size = 0
                        /\ e.saving_percentage = 0

(***************************************************************************)
(* C3: within one job the percent of successive Progress records never     *)
(* decreases, and no Progress record carries 100 before the FileComplete   *)
(* of the job's last file was emitted.                                     *)
(***************************************************************************)
C3_ProgressMonotoneAnd100AfterLastFile ==
    \A j \in Jobs :
        /\ \A e1 \in Progresses(j) : \A e2 \in Progresses(j) :
              e1.seq < e2.seq => e1.progress <= e2.progress
        /\ \A e \in Progresses(j) :
              e.progress = 100
                  => Cardinality(FileCompletes(j)) = workers[j].total_files

(***************************************************************************)
(* C4: the events of a job reach the stream clients in the order the       *)
(* worker put them, and the job's terminal event is the last one: when a   *)
(* record of job j is forwarded, no later record of j was forwarded        *)
(* before it, and nothing of j is still on its way once the terminal       *)
(* record was sent.                                                        *)
(***************************************************************************)
\* the records of job j that reached any client
Delivered(j) == {e \in UNION {Sent(c) : c \in Streams} : e.job = j}

C4_ObservedInPutOrderTerminalLast ==
    \A j \in Jobs :
        \* each connection forwards the records of j in the order of the puts
        /\ \A c \in Streams : \A m \in 1..Len(streams[c].sent) :
              \A n \in 1..Len(streams[c].sent) :
                 (m < n /\ streams[c].sent[m].job = j /\ streams[c].sent[n].job = j)
                    => streams[c].sent[m].seq < streams[c].sent[n].seq
        \* a record of j not yet forwarded is later than all that were
        /\ \A c \in Streams : \A h \in InHand(c) :
              h.job = j => \A e \in Delivered(j) : e.seq < h.seq
        /\ \A h \in Range(progress_queue) :
              h.job = j => \A e \in Delivered(j) : e.seq < h.seq

(***************************************************************************)
(* C5: whenever archive assembly starts for a job, one FileComplete result *)
(* was produced for each discovered file of that job, totalFiles in all.   *)
(* In-process: a connection handles the job's processing_complete record.  *)
(* Distributed: process_images_task is about to write the ZIP.             *)
(***************************************************************************)
C5_AllFilesCompleteWhenAssemblyStarts ==
    /\ \A j \in Jobs : \A c \in Streams :
          Assembling(c, j) =>
              /\ Cardinality(FileCompletes(j)) = workers[j].total_files
              /\ {e.file_name : e \in FileCompletes(j)}
                     = Range(workers[j].image_files)
    /\ task.pc \in {"zip", "returned"} =>
          /\ Len(task.results) = task.total_files
          /\ \A k \in 1..Len(task.results) :
                task.results[k].file_name = task.files[k]

\* assembly has started for a job of two files, one of which failed
C5_Witness ==
    \E j \in Jobs : \E c \in Streams :
        /\ Assembling(c, j)
        /\ workers[j].total_files = 2
        /\ \E e \in FileCompletes(j) : e.status = "error"
        /\ \E e \in FileCompletes(j) : e.status = "optimized"

(***************************************************************************)
(* C6: optimization_count equals the number of jobs that reached Complete, *)
(* that is, whose artifact was produced and registered; a job whose        *)
(* archive assembly fails adds nothing.  Stated for the moments at which   *)
(* no connection is between the increment and the end of its assembly.     *)
(***************************************************************************)
C6_CountEqualsCompletedJobs ==
    (\A c \in Streams : streams[c].pc \notin {"store", "zip"})
        => optimization_count = uuids

(***************************************************************************)
(* C7: a job that discovers no candidate file emits no Progress and no     *)
(* FileComplete record, does not fail, and its artifact has no entries.    *)
(***************************************************************************)
C7_EmptyJobGivesEmptyArtifact ==
    \A j \in Jobs :
        (workers[j].pc \in {"finish", "done"} /\ workers[j].total_files = 0)
            => /\ Progresses(j) = {}
               /\ FileCompletes(j) = {}
               /\ \A a \in downloadsDir : a.job = j => a.members = {}

(***************************************************************************)
(* C8: a submission whose archive has an entry that would resolve outside  *)
(* the extraction root is not processed: it is answered as an invalid      *)
(* archive, no worker is started for it and no output tree is set up.      *)
(***************************************************************************)
\* the depth below the extraction root after each component of a path
RECURSIVE Depth(_)
Depth(path) ==
    IF path = << >> THEN 0
    ELSE LET c == path[Len(path)]
             before == Depth(SubSeq(path, 1, Len(path) - 1))
         IN  IF c = ".." THEN before - 1
             ELSE IF c \in {"", "."} THEN before
             ELSE before + 1

Escapes(path) == \E n \in 1..Len(path) : Depth(SubSeq(path, 1, n)) < 0

C8_EscapingArchiveRejected ==
    \A i \in 1..Len(requests) :
        (\E e \in requests[i].req.entries : Escapes(e.path))
            => /\ requests[i].response = "400"
               /\ workers[i].pc = "none"

(***************************************************************************)
(* C9: a decodable PNG that carries transparency, processed with           *)
(* convertPng = true, is reported with status 'skipped', keeps its .png    *)
(* name and format, and no .jpg is written for it.                         *)
(***************************************************************************)
C9_TransparentPngSkipped ==
    \A j \in Jobs : \A e \in FileCompletes(j) :
        (workers[j].convert_png /\ KindAt(inputTree, e.file_name) = "png_rgba")
            => /\ e.status = "skipped"
               /\ \E f \in outputTree :
                     PathOf(f) = e.file_name /\ f.fmt = "PNG" /\ f.by = j
               /\ ~\E f \in outputTree :
                     PathOf(f) = [e.file_name EXCEPT !.ext = "jpg"] /\ f.by = j

(***************************************************************************)
(* C10: a decodable PNG without transparency, processed with               *)
(* convertPng = true, is reported with status 'converted', is written      *)
(* under the same base name with extension .jpg, and the job's artifact    *)
(* holds that .jpg entry and no .png entry for the file.                   *)
(***************************************************************************)
C10_OpaquePngConverted ==
    \A j \in Jobs : \A e \in FileCompletes(j) :
        (workers[j].convert_png /\ KindAt(inputTree, e.file_name) = "png_rgb")
            => /\ e.status = "converted"
               /\ \E f \in outputTree :
                     PathOf(f) = [e.file_name EXCEPT !.ext = "jpg"]
                        /\ f.fmt = "JPEG"
               /\ \A a \in downloadsDir :
                     a.job = j =>
                        /\ \E f \in a.members :
                              PathOf(f) = [e.file_name EXCEPT !.ext = "jpg"]
                        /\ ~\E f \in a.members : PathOf(f) = e.file_name

(***************************************************************************)
(* C11: the jpeg_quality handed to the worker of every accepted submission *)
(* is an integer in [1,100]: the submitted value when that is an integer   *)
(* in [1,100], and 85 when the field is absent, is not a number, or is an  *)
(* integer outside [1,100].                                                *)
(***************************************************************************)
QualityRange == 1..100

\* the field holds an integer of the accepted range
SubmittedInRange(field) ==
    /\ field.present
    /\ IsIntText(field.text)
    /\ DecimalValue(field.text) \in QualityRange

C11_QualityInRangeOrDefault ==
    \A i \in 1..Len(requests) :
        workers[i].pc # "none" =>
            LET field == requests[i].req.jpeg_quality IN
            /\ workers[i].jpeg_quality \in QualityRange
            /\ workers[i].jpeg_quality =
                  IF SubmittedInRange(field) THEN DecimalValue(field.text)
                  ELSE DefaultQuality

(***************************************************************************)
(* C12: a submission that is rejected (no file part, empty name, a name    *)
(* not ending in .zip, or a malformed archive) creates no job: the step    *)
(* that handles it starts no worker, puts no record on the queue and       *)
(* leaves the input tree, the output tree and current_output_dir as they   *)
(* were.                                                                   *)
(***************************************************************************)
C12_RejectionLeavesJobStateAlone ==
    [][(/\ Len(requests') = Len(requests) + 1
        /\ requests'[Len(requests')].response = "400")
          => UNCHANGED <<inputTree, outputTree, current_output_dir,
                         progress_queue, workers>>]_vars

(***************************************************************************)
(* C13: while a connection is open and has not sent the terminal record,   *)
(* a wait that expires on an empty queue yields exactly one keepalive      *)
(* record and the connection keeps waiting (and a keepalive is yielded     *)
(* only so); once the terminal record was sent the connection is closed    *)
(* and sends nothing more.                                                 *)
(***************************************************************************)
TerminalSent(c) ==
    \E k \in 1..Len(streams[c].sent) : streams[c].sent[k].type = "complete"

\* the step appends records to what connection c has sent
Sends(c, records) == streams'[c].sent = streams[c].sent \o records

C13_KeepaliveOnExpiryAndSilentAfterTerminal ==
    [][\A c \in Streams :
          /\ (/\ streams[c].pc = "wait"
              /\ progress_queue = << >>
              /\ streams'[c] # streams[c])
                => /\ Sends(c, <<Event("keepalive", 0, 0)>>)
                   /\ streams'[c].pc = "wait"
                   /\ ~TerminalSent(c)
          /\ (/\ Len(streams'[c].sent) > Len(streams[c].sent)
              /\ streams'[c].sent[Len(streams'[c].sent)].type = "keepalive")
                => /\ streams[c].pc = "wait"
                   /\ progress_queue = << >>
                   /\ Sends(c, <<Event("keepalive", 0, 0)>>)
          /\ TerminalSent(c)
                => /\ streams[c].pc = "closed"
                   /\ streams[c].sent[Len(streams[c].sent)].type = "complete"
                   /\ streams'[c] = streams[c]]_vars

\* a connection that yielded a keepalive while idle has later sent the
\* terminal record and is closed
C13_Witness ==
    \E c \in Streams :
        /\ streams[c].pc = "closed"
        /\ TerminalSent(c)
        /\ \E k \in 1..Len(streams[c].sent) : streams[c].sent[k].type = "keepalive"

(***************************************************************************)
(* C14: the per-file optimize operation, run on an input that cannot be    *)
(* decoded as an image, writes no file at the requested output path and    *)
(* none at the derived .jpg path, and returns to its caller without        *)
(* raising.  Stated for optimize_image of the command line tool (its       *)
(* calls by main, and a direct call on any path) and for optimize_image of *)
(* app.py on a file the codec cannot decode.                               *)
(***************************************************************************)
Undecodable == {"garbage", "text", "zip"}

\* the requested output path and the .jpg path derived from it
OutputPaths(path) == {path, [path EXCEPT !.ext = "jpg"]}

\* the paths optimize_image is called on directly
CallPaths ==
    {[dir |-> << >>, base |-> "not_an_image", ext |-> "txt"],
     [dir |-> <<"d">>, base |-> "b", ext |-> "jpg"],
     [dir |-> << >>, base |-> "a", ext |-> "png"]}

C14_UndecodableInputWritesNothing ==
    \* a direct call, on an empty or a filled output directory
    /\ \A kind \in Undecodable : \A path \in CallPaths :
          \A convert_png \in BOOLEAN : \A output_dir \in {{}, cli.output_dir} :
             LET call == CliOptimizeImage(output_dir, path, kind, convert_png) IN
             /\ call.outcome = "False"
             /\ call.output_dir = output_dir
    \* the calls made by main
    /\ cli.pc # "raised"
    /\ \A k \in 1..Len(cli.outcomes) :
          KindAt(cli.input_dir, cli.image_files[k]) \in Undecodable
              => /\ cli.outcomes[k] = "False"
                 /\ ~\E f \in cli.output_dir \cup cli.output_zip :
                       PathOf(f) \in OutputPaths(cli.image_files[k])
    \* app.py: the file is reported and the loop has gone on
    /\ \A j \in Jobs :
          LET w == workers[j] IN
          /\ w.pc = "died"
                => KindAt(inputTree, w.image_files[w.idx]) \notin Undecodable
          /\ \A k \in 1..Len(w.image_files) :
                (k < w.idx /\ KindAt(inputTree, w.image_files[k]) \in Undecodable)
                    => ~\E f \in outputTree :
                          /\ f.by = j
                          /\ PathOf(f) \in OutputPaths(w.image_files[k])

\* main has run over an archive with a file that cannot be decoded and a
\* file that can
C14_Witness ==
    /\ cli.pc = "returned"
    /\ cli.success_count = 1
    /\ \E k \in 1..Len(cli.outcomes) :
          KindAt(cli.input_dir, cli.image_files[k]) \in Undecodable

(***************************************************************************)
(* C15: with several jobs in flight, the stream consumer of a job is       *)
(* handed the records of that job only: no connection receives records     *)
(* put by the worker threads of two different jobs.                        *)
(***************************************************************************)
\* the jobs whose records connection c has taken from the queue
JobsSeenBy(c) == {e.job : e \in InHand(c) \cup Sent(c)} \ {0}

C15_ConnectionSeesOneJobOnly ==
    \A c \in Streams : Cardinality(JobsSeenBy(c)) <= 1

(***************************************************************************)
(* C16: the input root and the output root of a job are its own: the files *)
(* its worker discovers are exactly the image files of its own archive,    *)
(* and its artifact holds only outputs that its own worker wrote.          *)
(***************************************************************************)
\* the image files of the archive of request i, as extracted
OwnImageFiles(i) ==
    {PathOf(f) : f \in {g \in Extracted(requests[i].req.entries) : IsImageFile(g)}}

C16_RootsOwnedByOneJob ==
    /\ \A j \in Jobs :
          workers[j].pc \notin {"none", "walk"}
              => Range(workers[j].image_files) = OwnImageFiles(j)
    /\ \A a \in downloadsDir : \A f \in a.members : f.by = a.job

(***************************************************************************)
(* C17: an artifact is deleted on retrieval only by the close of a         *)
(* response that was flushed in full; a transfer that broke leaves the     *)
(* artifact in the store, where a retried request finds it.                *)
(***************************************************************************)
C17_DeletedOnlyAfterFullTransfer ==
    [][\A a \in downloadsDir \ downloadsDir' :
          \E d \in Downloads :
             /\ dl[d].pc = "sending"
             /\ dl[d].filename = a.name
             /\ dl'[d].result = "bytes"]_vars

(***************************************************************************)
(* C18: every artifact that is created is eventually deleted, whether it   *)
(* is retrieved or not.                                                    *)
(***************************************************************************)
C18_EveryArtifactEventuallyDeleted ==
    \A name \in 1..MaxJobs : (Stored(name) # {}) ~> (Stored(name) = {})

(***************************************************************************)
(* C19: every accepted job eventually produces its terminal event: the     *)
(* job does not stay in processing forever, whatever failure its worker    *)
(* meets.                                                                  *)
(***************************************************************************)
\* a terminal record of job j was put (and possibly forwarded)
TerminalEmitted(j) ==
    \E e \in EmittedBy(j) : e.type \in {"processing_complete", "complete"}

C19_EveryJobGetsTerminalEvent ==
    \A j \in Jobs : (workers[j].pc # "none") ~> TerminalEmitted(j)

(***************************************************************************)
(* C20: a job whose worker has finished gets its artifact assembled and    *)
(* registered whether or not a client connects to the progress stream      *)
(* (a failing archive write set aside).                                    *)
(***************************************************************************)
\* an archive was written for job j
Produced(j) ==
    \E c \in Streams : streams[c].zip_filename # 0 /\ streams[c].data.job = j

C20_ArtifactProducedWithoutClient ==
    \A j \in Jobs :
        (workers[j].pc = "done")
            ~> (Produced(j) \/ \E c \in Streams : streams[c].pc = "raised")

(***************************************************************************)
(* C21: when several jobs complete concurrently, on connections served by  *)
(* different threads, optimization_count grows by one for each of them:    *)
(* no increment is lost.  Stated as: the counter equals the number of      *)
(* connections that have executed their increment.                         *)
(***************************************************************************)
\* the connections that have executed optimization_count += 1
Incremented ==
    {c \in Streams : streams[c].pc \in {"zip", "raised", "complete", "closed"}}

C21_NoIncrementLost ==
    optimization_count = Cardinality(Incremented)

(***************************************************************************)
(* C22: in the distributed mode the progress snapshot of a job only moves  *)
(* forward: over the successive writes 'current' starts at 1 and grows by  *)
(* exactly 1, 'progress' never decreases, 'total' is the number of files   *)
(* counted at discovery in every write, and current <= total and           *)
(* progress <= 100 in every snapshot.                                      *)
(***************************************************************************)
C22_SnapshotOnlyMovesForward ==
    \A k \in 1..Len(task.redis) :
        LET snap == task.redis[k] IN
        /\ snap.current = k
        /\ snap.total = task.total_files
        /\ snap.current <= snap.total
        /\ snap.progress <= 100
        /\ k > 1 => /\ snap.current = task.redis[k - 1].current + 1
                    /\ snap.progress >= task.redis[k - 1].progress
                    /\ snap.total = task.redis[k - 1].total

\* the task has returned after writing the snapshots of two files, the
\* first at 50 and the second at 100
C22_Witness ==
    /\ task.pc = "returned"
    /\ Len(task.redis) = 2
    /\ task.redis[1].progress = 50
    /\ task.redis[2].progress = 100
    /\ task.redis[2].current = task.redis[2].total

====
